---------------------------- MODULE Spec2Model ----------------------------
(***************************************************************************)
(* State-machine model of internal/util.go of matrix-wechat-agent: the     *)
(* bounded disk-poll media fetchers (downloadImage, downloadVoice,         *)
(* downloadVideo, downloadFile), the sticker fetch over HTTP               *)
(* (downloadSticker, GetBytes, HTTPGetReadCloser), getMentions and         *)
(* saveBlob.                                                               *)
(*                                                                         *)
(* Strings are sequences of one-character strings, so that filepath.Ext,   *)
(* filepath.Base, filepath.Join, strings.TrimSuffix, strings.TrimSpace and *)
(* strings.FieldsFunc are computed the way the Go library computes them.   *)
(* "/" stands for the OS path separator.                                   *)
(*                                                                         *)
(* Time is discrete: one tick is 1/TicksPerSecond of a second.  A step of  *)
(* the fetching goroutine takes no time (time advances only while the      *)
(* goroutine is blocked in its select), the originating client writes the  *)
(* media files at arbitrary moments.                                       *)
(***************************************************************************)
EXTENDS Integers, Sequences, FiniteSets, TLC

VARIABLES
    op,          \* which entry point this run exercises: "fetch", "mentions", "save"
    kind,        \* fetch: "image", "voice", "video", "file", "sticker"
    msg,         \* the WechatMessage fields the entry point reads
    pc,          \* position of the goroutine inside the entry point
    now,         \* ticks elapsed since context.WithTimeout was called
    timer,       \* tick at which the pending time.After(1s) channel fires
    cands,       \* the candidate paths, in the order the loop checks them
    sel,         \* index in cands of the file the current poll reads (0: none)
    firstReady,  \* history: first existing-and-readable index seen by the last stat
    fs,          \* the disk: path -> [exists, readable, written]
    result,      \* the *BlobData returned (nil: TRUE for a nil pointer)
    polled,      \* history: PathExists has been called
    readyEarly,  \* history: a candidate became existing-and-readable before the deadline
    everExisted, \* history: some candidate file has existed
    fetches,     \* number of GetBytes calls
    requests,    \* number of httpClient.Do calls
    resp,        \* the HTTP exchange httpClient.Do produced
    mentions,    \* the []string getMentions returned
    saved,       \* saveBlob: the calls made so far, with the path each returned
    written      \* saveBlob: the files os.WriteFile left behind, each [path, data]

vars == << op, kind, msg, pc, now, timer, cands, sel, firstReady, fs, result,
           polled, readyEarly, everExisted, fetches, requests, resp, mentions,
           saved, written >>

-----------------------------------------------------------------------------
(* Bounds of the model and constants of the program *)

TicksPerSecond == 2
MaxFiles == 2
FileChunks == 2
MediaDownloadTiemout == 30
PollInterval == 1

Deadline == MediaDownloadTiemout * TicksPerSecond

-----------------------------------------------------------------------------
(* Strings and paths *)

Sep == "/"

HasSuffix(s, suffix) ==
    /\ Len(suffix) <= Len(s)
    /\ SubSeq(s, Len(s) - Len(suffix) + 1, Len(s)) = suffix

TrimSuffix(s, suffix) ==
    IF HasSuffix(s, suffix) THEN SubSeq(s, 1, Len(s) - Len(suffix)) ELSE s

RECURSIVE ExtFrom(_, _)
ExtFrom(path, i) ==
    IF i < 1 \/ path[i] = Sep THEN << >>
    ELSE IF path[i] = "." THEN SubSeq(path, i, Len(path))
    ELSE ExtFrom(path, i - 1)

Ext(path) == ExtFrom(path, Len(path))

RECURSIVE StripTrailingSep(_)
StripTrailingSep(path) ==
    IF Len(path) > 0 /\ path[Len(path)] = Sep
    THEN StripTrailingSep(SubSeq(path, 1, Len(path) - 1))
    ELSE path

RECURSIVE LastSep(_, _)
LastSep(path, i) ==
    IF i < 1 \/ path[i] = Sep THEN i ELSE LastSep(path, i - 1)

Base(path) ==
    IF path = << >> THEN << "." >>
    ELSE LET p == StripTrailingSep(path)
             i == LastSep(p, Len(p))
             e == SubSeq(p, i + 1, Len(p))
         IN  IF e = << >> THEN << Sep >> ELSE e

\* the elements of a path, split at the separators (empty elements included)
RECURSIVE Split(_)
Split(path) ==
    LET i == LastSep(path, Len(path))
    IN  IF i < 1 THEN << path >>
        ELSE Append(Split(SubSeq(path, 1, i - 1)), SubSeq(path, i + 1, Len(path)))

\* Clean on a relative path: drops empty and "." elements, lets ".." cancel
\* the element before it
RECURSIVE CleanElems(_, _)
CleanElems(elems, acc) ==
    IF elems = << >> THEN acc
    ELSE LET e == Head(elems)
             rest == Tail(elems)
         IN  IF e = << >> \/ e = << "." >> THEN CleanElems(rest, acc)
             ELSE IF e = << ".", "." >> /\ acc # << >> /\ acc[Len(acc)] # << ".", "." >>
                  THEN CleanElems(rest, SubSeq(acc, 1, Len(acc) - 1))
             ELSE CleanElems(rest, Append(acc, e))

RECURSIVE Glue(_)
Glue(elems) ==
    IF elems = << >> THEN << >>
    ELSE IF Len(elems) = 1 THEN elems[1]
    ELSE elems[1] \o << Sep >> \o Glue(Tail(elems))

Clean(path) ==
    LET elems == CleanElems(Split(path), << >>)
    IN  IF elems = << >> THEN << "." >> ELSE Glue(elems)

RECURSIVE NonEmpty(_)
NonEmpty(parts) ==
    IF parts = << >> THEN << >>
    ELSE IF Head(parts) = << >> THEN NonEmpty(Tail(parts))
    ELSE << Head(parts) >> \o NonEmpty(Tail(parts))

Join(parts) ==
    IF NonEmpty(parts) = << >> THEN << >> ELSE Clean(Glue(NonEmpty(parts)))

Range(s) == { s[i] : i \in 1..Len(s) }

-----------------------------------------------------------------------------
(* The AppService configuration and the messages *)

Workdir == << "w" >>
Docdir == << "d" >>
Self == << "s" >>

PngExt == << ".", "p", "n", "g" >>
GifExt == << ".", "g", "i", "f" >>
JpgExt == << ".", "j", "p", "g" >>
AmrExt == << ".", "a", "m", "r" >>
Mp4Ext == << ".", "m", "p", "4" >>

\* the node xmlquery.FindOne returned: found is FALSE for a nil node
Node(text) == [found |-> TRUE, text |-> text]
NoNode == [found |-> FALSE, text |-> << >>]

Nil == [nil |-> TRUE, Name |-> << >>, Binary |-> << >>]
Blob(name, binary) == [nil |-> FALSE, Name |-> name, Binary |-> binary]

NoMsg == [parseOK |-> TRUE, FilePath |-> << >>, Thumbnail |-> << >>,
          clientmsgid |-> NoNode, cdnurl |-> NoNode, aeskey |-> NoNode,
          extraLen |-> 0, atuserlist |-> NoNode, Name |-> << >>, Binary |-> << >>,
          decodeOK |-> TRUE]

ImageHints == { << "a", ".", "d", "a", "t" >>,
                << "x", "/", "a", ".", "p", "n", "g" >>,
                << "a" >> }

FileHints == { << "f", ".", "p", "d", "f" >>, << "x", "/", "f" >> }

VideoHints == { [FilePath |-> << "x", "/", "v", ".", "m", "p", "4" >>, Thumbnail |-> << >>],
                [FilePath |-> << >>, Thumbnail |-> << "t", ".", "j", "p", "g" >>] }

VoiceIds == { NoNode, Node(<< >>), Node(<< "v" >>) }


StickerUrls == { NoNode, Node(<< >>), Node(<< "u" >>), Node(<< "u", "^" >>) }

StickerKeys == { NoNode, Node(<< >>), Node(<< "k" >>) }

FetchMsgs(k) ==
    CASE k = "image" -> { [NoMsg EXCEPT !.FilePath = h] : h \in ImageHints }
      [] k = "file" -> { [NoMsg EXCEPT !.FilePath = h] : h \in FileHints }
      [] k = "video" ->
            { [NoMsg EXCEPT !.FilePath = h.FilePath, !.Thumbnail = h.Thumbnail] :
                h \in VideoHints }
      [] k = "voice" ->
            { [NoMsg EXCEPT !.parseOK = FALSE] }
            \cup { [NoMsg EXCEPT !.clientmsgid = n] : n \in VoiceIds }
      [] k = "sticker" ->
            { [NoMsg EXCEPT !.parseOK = FALSE] }
            \cup { [NoMsg EXCEPT !.cdnurl = u, !.aeskey = h] :
                     u \in StickerUrls, h \in StickerKeys }

DiskKinds == { "image", "voice", "video", "file" }
Kinds == DiskKinds \cup { "sticker" }

-----------------------------------------------------------------------------
(* Candidate paths of the disk-backed fetchers *)

ImageFile(m) == Join(<< Workdir, Self, Base(m.FilePath) >>)

\* mutant of BaseFile: the extension of the hinted name is kept
BaseFileKeepsExt(m) == ImageFile(m)

BaseFile(m) == TrimSuffix(ImageFile(m), Ext(ImageFile(m)))

ImageCandidates(m) ==
    << BaseFile(m), BaseFile(m) \o PngExt, BaseFile(m) \o GifExt, BaseFile(m) \o JpgExt >>

\* downloadVoice returns before its loop unless the markup parses and carries
\* a non-empty clientmsgid
VoiceHasId(m) == m.parseOK /\ m.clientmsgid.found /\ Len(m.clientmsgid.text) > 0

VoiceFile(m) == Join(<< Workdir, Self, m.clientmsgid.text \o AmrExt >>)

VideoFile(m) ==
    IF Len(m.FilePath) > 0
    THEN Join(<< Docdir, m.FilePath >>)
    ELSE LET f == Join(<< Docdir, m.Thumbnail >>)
         IN  TrimSuffix(f, Ext(f)) \o Mp4Ext

DocFile(m) == Join(<< Docdir, m.FilePath >>)

Candidates(k, m) ==
    CASE k = "image" -> ImageCandidates(m)
      [] k = "voice" -> IF VoiceHasId(m) THEN << VoiceFile(m) >> ELSE << >>
      [] k = "video" -> << VideoFile(m) >>
      [] k = "file" -> << DocFile(m) >>
      [] OTHER -> << >>

\* the paths the originating client may write: the candidates and, for an
\* image, the file at the hinted name itself
Watched(k, m) ==
    Range(Candidates(k, m)) \cup (IF k = "image" THEN { ImageFile(m) } ELSE { })

\* the Name the returned BlobData gets for the file read at path
BlobName(k, m, path) ==
    IF k = "image" THEN Base(m.FilePath) ELSE Base(path)

-----------------------------------------------------------------------------
(* The disk *)

Absent == [exists |-> FALSE, readable |-> FALSE, written |-> 0]

\* the bytes of the file at path after n of its FileChunks chunks are written
Content(path, n) == [i \in 1..n |-> [file |-> path, chunk |-> i]]

\* PathExists: os.Stat succeeds
PathExists(path) == fs[path].exists

\* os.ReadFile: the bytes written so far, or an error
ReadFile(path) ==
    IF fs[path].exists /\ fs[path].readable
    THEN [err |-> FALSE, data |-> Content(path, fs[path].written)]
    ELSE [err |-> TRUE, data |-> << >>]

Ready(path) == fs[path].exists /\ fs[path].readable

\* index of the first candidate that exists, 0 when there is none: the case
\* the switch of downloadImage takes, the if of the other three
FirstExisting ==
    IF \E i \in 1..Len(cands) : PathExists(cands[i])
    THEN CHOOSE i \in 1..Len(cands) :
            /\ PathExists(cands[i])
            /\ \A j \in 1..(i - 1) : ~PathExists(cands[j])
    ELSE 0

\* index of the first candidate that exists and can be read, 0 when none
FirstReadable ==
    IF \E i \in 1..Len(cands) : Ready(cands[i])
    THEN CHOOSE i \in 1..Len(cands) :
            /\ Ready(cands[i])
            /\ \A j \in 1..(i - 1) : ~Ready(cands[j])
    ELSE 0

-----------------------------------------------------------------------------
(* The HTTP exchange of the sticker fetch *)

NoResp == [transport |-> "none", status |-> 0, gzip |-> FALSE, body |-> << >>,
           readOK |-> FALSE]

\* what the server may answer: the transport fails or delivers a response with
\* a status, a Content-Encoding header, a body and a body stream that may break
Responses ==
    [transport : { "ok", "fail" }, status : { 200, 404 }, gzip : BOOLEAN,
     body : { << >>, << "b" >>, << "GZ", "b" >> }, readOK : BOOLEAN]

\* url.Parse, called by http.NewRequest, rejects a URL holding a control
\* byte ("^" stands for one)
NewRequestOK(url) == \A i \in 1..Len(url) : url[i] # "^"

\* gzip.NewReader: fails unless the stream starts with a gzip header ("GZ"
\* stands for it); the reader then yields the decompressed bytes
NewGzipReadCloser(body) ==
    IF Len(body) > 0 /\ body[1] = "GZ"
    THEN [err |-> FALSE, stream |-> Tail(body)]
    ELSE [err |-> TRUE, stream |-> << >>]

\* HTTPGetReadCloser: the status of the response is not looked at
HTTPGetReadCloser(url, r) ==
    IF ~NewRequestOK(url) THEN [err |-> TRUE, stream |-> << >>]
    ELSE IF r.transport # "ok" THEN [err |-> TRUE, stream |-> << >>]
    ELSE IF r.gzip THEN NewGzipReadCloser(r.body)
    ELSE [err |-> FALSE, stream |-> r.body]

\* GetBytes: io.ReadAll of the reader
GetBytes(url, r) ==
    LET reader == HTTPGetReadCloser(url, r)
    IN  IF reader.err THEN [err |-> TRUE, data |-> << >>]
        ELSE IF ~r.readOK THEN [err |-> TRUE, data |-> << >>]
        ELSE [err |-> FALSE, data |-> reader.stream]

StickerHasAttrs(m) ==
    /\ m.parseOK
    /\ m.cdnurl.found /\ Len(m.cdnurl.text) > 0
    /\ m.aeskey.found /\ Len(m.aeskey.text) > 0

\* mutant of StickerBlob: the blob is named after the URL, as the disk kinds
\* name theirs after the path
StickerBlobUrlName(hash, data) == Blob(Base(msg.cdnurl.text), data)

StickerBlob(hash, data) == Blob(hash, data)

-----------------------------------------------------------------------------
(* downloadImage, downloadVoice, downloadVideo, downloadFile *)

fetchVars == << timer, cands, sel, firstReady, result, polled, fetches, requests, resp >>
otherOps == << mentions, saved, written >>

\* the code before the loop: context.WithTimeout (the candidate paths, a
\* function of the message alone, are in cands from the start); downloadVoice
\* returns nil here when the markup gives no clientmsgid
Start ==
    /\ op = "fetch" /\ kind \in DiskKinds /\ pc = "start"
    /\ IF kind = "voice" /\ ~VoiceHasId(msg)
       THEN pc' = "done" /\ result' = Nil
       ELSE pc' = "stat" /\ UNCHANGED result
    /\ UNCHANGED << op, kind, msg, now, timer, cands, sel, firstReady, fs, polled,
                    readyEarly, everExisted, fetches, requests, resp, otherOps >>

\* the PathExists calls of one iteration: the first candidate that exists is
\* the one read; with none, the iteration goes to its select
Stat ==
    /\ op = "fetch" /\ pc = "stat"
    /\ polled' = TRUE
    /\ sel' = FirstExisting
    /\ firstReady' = FirstReadable
    /\ IF sel' = 0
       THEN pc' = "wait" /\ timer' = now + PollInterval * TicksPerSecond
       ELSE pc' = "read" /\ UNCHANGED timer
    /\ UNCHANGED << op, kind, msg, now, cands, fs, result, readyEarly, everExisted,
                    fetches, requests, resp, otherOps >>

\* os.ReadFile of the chosen candidate: its bytes are returned, or on an
\* error the iteration goes to its select
Read ==
    /\ op = "fetch" /\ pc = "read"
    /\ LET r == ReadFile(cands[sel])
       IN  IF ~r.err
           THEN /\ result' = Blob(BlobName(kind, msg, cands[sel]), r.data)
                /\ pc' = "done"
                /\ UNCHANGED timer
           ELSE /\ pc' = "wait"
                /\ timer' = now + PollInterval * TicksPerSecond
                /\ UNCHANGED result
    /\ UNCHANGED << op, kind, msg, now, cands, sel, firstReady, fs, polled, readyEarly,
                    everExisted, fetches, requests, resp, otherOps >>

TimerReady == now >= timer

\* mutant of CtxDone: the timeout is taken in ticks, not seconds
CtxDoneTicks == now >= MediaDownloadTiemout

CtxDone == now >= Deadline

\* select, case <-time.After(1 * time.Second): the next iteration
TimerFires ==
    /\ op = "fetch" /\ pc = "wait"
    /\ TimerReady
    /\ pc' = "stat"
    /\ UNCHANGED << op, kind, msg, now, timer, cands, sel, firstReady, fs, result, polled,
                    readyEarly, everExisted, fetches, requests, resp, otherOps >>

\* select, case <-ctx.Done(): return nil
CtxExpires ==
    /\ op = "fetch" /\ pc = "wait"
    /\ CtxDone
    /\ pc' = "done"
    /\ result' = Nil
    /\ UNCHANGED << op, kind, msg, now, timer, cands, sel, firstReady, fs, polled,
                    readyEarly, everExisted, fetches, requests, resp, otherOps >>

\* time passes while the goroutine is blocked in select with no case ready
Tick ==
    /\ op = "fetch" /\ pc = "wait"
    /\ ~TimerReady /\ ~CtxDone
    /\ now' = now + 1
    /\ UNCHANGED << op, kind, msg, pc, fetchVars, fs, readyEarly, everExisted, otherOps >>

-----------------------------------------------------------------------------
(* The originating client, writing media files while the fetch polls *)

NumFiles == Cardinality({ p \in DOMAIN fs : fs[p].exists })

\* creates the file at path, empty; readable is FALSE for a file that
\* os.ReadFile cannot read (a directory, a file held locked, no permission)
Create(path, readable) ==
    /\ op = "fetch" /\ pc # "done"
    /\ ~fs[path].exists
    /\ NumFiles < MaxFiles
    /\ fs' = [fs EXCEPT ![path] = [exists |-> TRUE, readable |-> readable, written |-> 0]]
    /\ everExisted' = (everExisted \/ path \in Range(cands))
    /\ readyEarly' =
          (readyEarly \/ (readable /\ path \in Range(cands) /\ now < Deadline))
    /\ UNCHANGED << op, kind, msg, pc, now, fetchVars, otherOps >>

\* writes the next chunk of the file at path
WriteChunk(path) ==
    /\ op = "fetch" /\ pc # "done"
    /\ fs[path].exists /\ fs[path].readable
    /\ fs[path].written < FileChunks
    /\ fs' = [fs EXCEPT ![path].written = @ + 1]
    /\ UNCHANGED << op, kind, msg, pc, now, fetchVars, readyEarly, everExisted, otherOps >>

Writer ==
    /\ op = "fetch"
    /\ \E path \in DOMAIN fs :
          \/ \E readable \in BOOLEAN : Create(path, readable)
          \/ WriteChunk(path)

-----------------------------------------------------------------------------
(* downloadSticker *)

\* xmlquery.Parse and the two FindOne lookups
StickerParse ==
    /\ op = "fetch" /\ kind = "sticker" /\ pc = "start"
    /\ IF StickerHasAttrs(msg)
       THEN pc' = "http" /\ UNCHANGED result
       ELSE pc' = "done" /\ result' = Nil
    /\ UNCHANGED << op, kind, msg, now, timer, cands, sel, firstReady, fs, polled,
                    readyEarly, everExisted, fetches, requests, resp, otherOps >>

\* GetBytes(url) and the return of downloadSticker
StickerFetch ==
    /\ op = "fetch" /\ kind = "sticker" /\ pc = "http"
    /\ \E r \in Responses :
          LET got == GetBytes(msg.cdnurl.text, r)
          IN  /\ fetches' = fetches + 1
              /\ IF NewRequestOK(msg.cdnurl.text)
                 THEN requests' = requests + 1 /\ resp' = r
                 ELSE UNCHANGED << requests, resp >>
              /\ result' = IF ~got.err THEN StickerBlob(msg.aeskey.text, got.data) ELSE Nil
    /\ pc' = "done"
    /\ UNCHANGED << op, kind, msg, now, timer, cands, sel, firstReady, fs, polled,
                    readyEarly, everExisted, otherOps >>

-----------------------------------------------------------------------------
(* getMentions *)

MaxText == 3

Alphabet == { "a", "b", ",", " " }

RECURSIVE Texts(_)
Texts(n) ==
    IF n = 0 THEN { << >> }
    ELSE Texts(n - 1) \cup { Append(t, c) : t \in { u \in Texts(n - 1) : Len(u) = n - 1 }, c \in Alphabet }

MentionMsgs ==
    { NoMsg, [NoMsg EXCEPT !.extraLen = 1, !.parseOK = FALSE],
      [NoMsg EXCEPT !.extraLen = 1] }
    \cup { [NoMsg EXCEPT !.extraLen = 1, !.atuserlist = Node(t)] : t \in Texts(MaxText) }

IsSpace(c) == c = " "

RECURSIVE TrimLeft(_)
TrimLeft(s) == IF Len(s) > 0 /\ IsSpace(s[1]) THEN TrimLeft(Tail(s)) ELSE s

RECURSIVE TrimRight(_)
TrimRight(s) ==
    IF Len(s) > 0 /\ IsSpace(s[Len(s)]) THEN TrimRight(SubSeq(s, 1, Len(s) - 1)) ELSE s

TrimSpace(s) == TrimRight(TrimLeft(s))

\* the separator function getMentions hands to strings.FieldsFunc
IsComma(c) == c = ","

\* strings.FieldsFunc with IsComma: the maximal runs of characters that are
\* no separator; field is the run being read (started tells whether one is)
RECURSIVE FieldsFrom(_, _, _)
FieldsFrom(s, field, started) ==
    IF s = << >> THEN (IF started THEN << field >> ELSE << >>)
    ELSE IF IsComma(Head(s))
         THEN (IF started THEN << field >> ELSE << >>) \o FieldsFrom(Tail(s), << >>, FALSE)
         ELSE FieldsFrom(Tail(s), Append(field, Head(s)), TRUE)

\* a []string: nil is TRUE for the nil slice; FieldsFunc always makes a slice
NilSlice == [nil |-> TRUE, items |-> << >>]
Slice(items) == [nil |-> FALSE, items |-> items]

FieldsFunc(s) == Slice(FieldsFrom(s, << >>, FALSE))

getMentions(m) ==
    IF m.extraLen = 0 THEN NilSlice
    ELSE IF ~m.parseOK THEN NilSlice
    ELSE IF ~m.atuserlist.found \/ Len(m.atuserlist.text) = 0 THEN NilSlice
    ELSE FieldsFunc(TrimSpace(m.atuserlist.text))

GetMentions ==
    /\ op = "mentions" /\ pc = "start"
    /\ mentions' = getMentions(msg)
    /\ pc' = "done"
    /\ UNCHANGED << op, kind, msg, now, fetchVars, fs, readyEarly, everExisted, saved,
                    written >>

-----------------------------------------------------------------------------
(* saveBlob *)

MaxSaves == 2

HexDigits == << "0", "1", "2", "3", "4", "5", "6", "7", "8", "9",
                "a", "b", "c", "d", "e", "f" >>

\* fmt.Sprintf("%x", bytes): two lowercase hexadecimal digits a byte
RECURSIVE Hex(_)
Hex(bytes) ==
    IF bytes = << >> THEN << >>
    ELSE << HexDigits[(Head(bytes) \div 16) + 1], HexDigits[(Head(bytes) % 16) + 1] >>
         \o Hex(Tail(bytes))

RECURSIVE Mix(_, _)
Mix(bytes, h) ==
    IF bytes = << >> THEN h ELSE Mix(Tail(bytes), (h * 31 + Head(bytes) + 1) % 65536)

\* md5.Sum: a digest that is a function of the bytes alone (two bytes here,
\* sixteen in the program; the hash itself is not reproduced)
Md5Sum(bytes) ==
    LET h == Mix(bytes, 54321) IN << h \div 256, h % 256 >>

SaveNames == { << >>, << "n" >>, << "m", ".", "j" >>, << ".", ".", "/", "n" >> }

SaveBinaries == { << >>, << 1 >>, << 171 >>, << 1, 171 >> }

SaveMsgs ==
    { [NoMsg EXCEPT !.decodeOK = FALSE] }
    \cup { [NoMsg EXCEPT !.Name = n, !.Binary = b] : n \in SaveNames, b \in SaveBinaries }

\* the path saveBlob builds for the decoded BlobData
SavePath(data) ==
    IF Len(data.Name) > 0
    THEN Join(<< Workdir, data.Name >>)
    ELSE Join(<< Workdir, Hex(Md5Sum(data.Binary)) >>)

\* os.WriteFile: "ok" writes the bytes, "fail" leaves the disk as it was,
\* "short" fails after the file has been created or truncated
WriteOutcomes == { "ok", "fail", "short" }

WriteFile(disk, path, data, outcome) ==
    CASE outcome = "ok" -> { f \in disk : f.path # path } \cup { [path |-> path, data |-> data] }
      [] outcome = "short" -> { f \in disk : f.path # path } \cup { [path |-> path, data |-> << >>] }
      [] OTHER -> disk

\* the string saveBlob returns
SaveResult(m, outcome) ==
    IF ~m.decodeOK THEN << >>
    ELSE IF outcome # "ok" THEN << >>
    ELSE SavePath(m)

SaveBlob ==
    /\ op = "save" /\ Len(saved) < MaxSaves
    /\ \E m \in SaveMsgs, outcome \in WriteOutcomes :
          /\ msg' = m
          /\ written' = IF m.decodeOK
                        THEN WriteFile(written, SavePath(m), m.Binary, outcome)
                        ELSE written
          /\ saved' = Append(saved, [decoded |-> m.decodeOK, name |-> m.Name,
                                     binary |-> m.Binary, outcome |-> outcome,
                                     path |-> SaveResult(m, outcome)])
    /\ UNCHANGED << op, kind, pc, now, fetchVars, fs, readyEarly, everExisted, mentions >>

-----------------------------------------------------------------------------

InitFetch ==
    /\ op = "fetch"
    /\ kind \in Kinds
    /\ msg \in FetchMsgs(kind)
    /\ pc = "start"
    /\ now = 0 /\ timer = 0
    /\ cands = Candidates(kind, msg) /\ sel = 0 /\ firstReady = 0
    /\ fs = [p \in Watched(kind, msg) |-> Absent]
    /\ result = Nil
    /\ polled = FALSE /\ readyEarly = FALSE /\ everExisted = FALSE
    /\ fetches = 0 /\ requests = 0 /\ resp = NoResp
    /\ mentions = NilSlice
    /\ saved = << >>
    /\ written = { }

InitMentions ==
    /\ op = "mentions"
    /\ kind = "none"
    /\ msg \in MentionMsgs
    /\ pc = "start"
    /\ now = 0 /\ timer = 0
    /\ cands = << >> /\ sel = 0 /\ firstReady = 0
    /\ fs = << >>
    /\ result = Nil
    /\ polled = FALSE /\ readyEarly = FALSE /\ everExisted = FALSE
    /\ fetches = 0 /\ requests = 0 /\ resp = NoResp
    /\ mentions = NilSlice
    /\ saved = << >>
    /\ written = { }

InitSave ==
    /\ op = "save"
    /\ kind = "none"
    /\ msg = NoMsg
    /\ pc = "start"
    /\ now = 0 /\ timer = 0
    /\ cands = << >> /\ sel = 0 /\ firstReady = 0
    /\ fs = << >>
    /\ result = Nil
    /\ polled = FALSE /\ readyEarly = FALSE /\ everExisted = FALSE
    /\ fetches = 0 /\ requests = 0 /\ resp = NoResp
    /\ mentions = NilSlice
    /\ saved = << >>
    /\ written = { }

Init == InitFetch \/ InitMentions \/ InitSave

Next ==
    \/ Start \/ Stat \/ Read \/ TimerFires \/ CtxExpires \/ Tick
    \/ Writer
    \/ StickerParse \/ StickerFetch
    \/ GetMentions
    \/ SaveBlob

Spec == Init /\ [][Next]_vars

\* the goroutine is scheduled whenever it can take a step, and time passes
\* while it is blocked
Fetcher == Start \/ Stat \/ Read \/ TimerFires \/ CtxExpires

FairSpec == Spec /\ WF_vars(Fetcher) /\ WF_vars(Tick)

DiskFetch == op = "fetch" /\ kind \in DiskKinds

-----------------------------------------------------------------------------
(* C2: a disk-backed fetch whose candidate files never exist returns nil   *)
(* at the expiry of the 30-second deadline; no iteration of the poll loop   *)
(* returns nil before the deadline has expired; and the fetch does not      *)
(* block past the deadline: until it has returned the deadline has not been *)
(* passed and the goroutine or the clock can step, and at the deadline the  *)
(* ctx.Done() case of the select is ready.                                  *)
C2_UnavailableAtDeadline ==
    DiskFetch =>
        /\ (pc = "done" /\ polled /\ result.nil) => now >= Deadline
        /\ (pc = "done" /\ cands # << >> /\ ~everExisted)
              => (result.nil /\ now = Deadline)
        /\ pc # "done" => (now <= Deadline /\ ENABLED (Fetcher \/ Tick))
        /\ (pc = "wait" /\ now = Deadline) => ENABLED CtxExpires

\* the liveness reading of C2 under FairSpec: every disk-backed fetch returns
FetchTerminates == [](DiskFetch => <>(pc = "done"))

\* C2 witness: a video fetch none of whose files ever existed has returned nil
\* at the deadline
C2_Witness ==
    /\ DiskFetch /\ kind = "video" /\ pc = "done"
    /\ polled /\ ~everExisted
    /\ result.nil /\ now = Deadline

-----------------------------------------------------------------------------
(* C1: a disk-backed fetch one of whose candidates became existing and     *)
(* readable before the deadline (and stayed so, no candidate being         *)
(* unreadable) returns a blob, not nil.                                    *)
C1_FoundIfReadyBeforeDeadline ==
    ( /\ DiskFetch /\ pc = "done"
      /\ readyEarly
      /\ \A i \in 1..Len(cands) : fs[cands[i]].exists => fs[cands[i]].readable )
    => ~result.nil

-----------------------------------------------------------------------------
StickerFetchOK ==
    /\ requests = 1
    /\ resp.transport = "ok"
    /\ resp.readOK
    /\ resp.gzip => (Len(resp.body) > 0 /\ resp.body[1] = "GZ")

StickerPayload == IF resp.gzip THEN Tail(resp.body) ELSE resp.body

(* C3: downloadSticker never calls PathExists; with non-empty cdnurl and   *)
(* aeskey it calls GetBytes exactly once (at most one HTTP request), and   *)
(* returns the blob named by aeskey holding the fetched bytes when the     *)
(* fetch returns no error, nil when it returns one; without either         *)
(* attribute it makes no fetch and returns nil.                            *)
C3_StickerOneFetch ==
    (op = "fetch" /\ kind = "sticker") =>
        /\ ~polled
        /\ fetches <= 1 /\ requests <= fetches
        /\ pc = "done" =>
              IF StickerHasAttrs(msg)
              THEN /\ fetches = 1
                   /\ IF StickerFetchOK
                      THEN result = Blob(msg.aeskey.text, StickerPayload)
                      ELSE result.nil
              ELSE fetches = 0 /\ requests = 0 /\ result.nil

\* C3 witness: a sticker resolved from a gzip-encoded response
C3_Witness ==
    /\ op = "fetch" /\ kind = "sticker" /\ pc = "done"
    /\ fetches = 1 /\ requests = 1 /\ resp.gzip
    /\ ~result.nil /\ result.Name = << "k" >> /\ result.Binary = << "b" >>

(* C4: a sticker fetch whose HTTP exchange failed in transport or was      *)
(* answered with a non-success status produces no blob.                    *)
C4_NonSuccessIsError ==
    ( /\ op = "fetch" /\ kind = "sticker" /\ pc = "done" /\ requests = 1
      /\ (resp.transport # "ok" \/ resp.status # 200) )
    => result.nil

-----------------------------------------------------------------------------
\* the pieces of s between its commas, empty ones included
RECURSIVE CommaPieces(_, _)
CommaPieces(s, piece) ==
    IF s = << >> THEN << piece >>
    ELSE IF Head(s) = "," THEN << piece >> \o CommaPieces(Tail(s), << >>)
    ELSE CommaPieces(Tail(s), Append(piece, Head(s)))

RECURSIVE TrimmedIds(_)
TrimmedIds(pieces) ==
    IF pieces = << >> THEN << >>
    ELSE LET id == TrimSpace(Head(pieces))
         IN  (IF id = << >> THEN << >> ELSE << id >>) \o TrimmedIds(Tail(pieces))

\* the identifiers of the mention list of message m
Identifiers(m) ==
    IF m.extraLen = 0 \/ ~m.parseOK \/ ~m.atuserlist.found THEN << >>
    ELSE TrimmedIds(CommaPieces(m.atuserlist.text, << >>))

(* C5: getMentions returns the identifiers of the comma-separated mention  *)
(* list, each trimmed, in order; it returns nil, and not an empty slice,   *)
(* when the list is absent, empty or holds no identifier.                  *)
C5_MentionsTrimmedOrNil ==
    (op = "mentions" /\ pc = "done") =>
        IF Identifiers(msg) = << >>
        THEN mentions.nil
        ELSE ~mentions.nil /\ mentions.items = Identifiers(msg)

-----------------------------------------------------------------------------
(* C6: saveBlob returns "" on a decode or write failure and otherwise the  *)
(* path of a file it wrote; a non-empty name is used verbatim under the    *)
(* working directory; an empty name gives the same path for the same bytes.*)
C6_SaveNaming ==
    op = "save" =>
        \A i \in 1..Len(saved) :
            LET c == saved[i]
            IN  /\ (~c.decoded \/ c.outcome # "ok") => c.path = << >>
                /\ c.path # << >> => \E f \in written : f.path = c.path
                /\ (c.path # << >> /\ c.name # << >>)
                      => c.path = Workdir \o << Sep >> \o c.name
                /\ (c.path # << >> /\ c.name = << >>)
                      => \A j \in 1..Len(saved) :
                            ( /\ saved[j].path # << >> /\ saved[j].name = << >>
                              /\ saved[j].binary = c.binary )
                            => saved[j].path = c.path

-----------------------------------------------------------------------------
KnownExts == { PngExt, GifExt, JpgExt }

(* C7 as amended: the candidates of an image fetch are the hinted file     *)
(* name with its extension removed, then that name with .png, .gif and     *)
(* .jpg appended; every poll takes the first of them that exists, so never *)
(* one behind the first existing-and-readable one; the bytes returned are  *)
(* those of a candidate, and those of the file at the hinted path only     *)
(* when the hint has no extension or one of the three.                     *)
C7_CandidatesStripExtension ==
    (op = "fetch" /\ kind = "image" /\ pc # "start") =>
        LET hinted == ImageFile(msg)
        IN  /\ Len(cands) = 4
            /\ cands[1] \o Ext(hinted) = hinted
            /\ cands[2] = cands[1] \o PngExt
            /\ cands[3] = cands[1] \o GifExt
            /\ cands[4] = cands[1] \o JpgExt
            /\ pc = "read" => (sel \in 1..4 /\ (firstReady # 0 => sel <= firstReady))
            /\ (pc = "done" /\ ~result.nil) =>
                  /\ \E n \in 0..FileChunks : result.Binary = Content(cands[sel], n)
                  /\ cands[sel] = hinted => Ext(hinted) \in KnownExts \cup { << >> }

\* C7 witness: the file at the hinted path a.dat exists and is readable, and
\* the fetch returned the bytes of a.png
C7_Witness ==
    /\ op = "fetch" /\ kind = "image" /\ pc = "done"
    /\ ImageFile(msg) \notin Range(cands)
    /\ fs[ImageFile(msg)].exists /\ fs[ImageFile(msg)].readable
    /\ ~result.nil /\ sel = 2

(* C7 as stated: the first candidate of an image fetch is the hinted path  *)
(* itself, with its extension, followed by the base name with .png, .gif   *)
(* and .jpg.                                                               *)
C7_HintedPathFirst ==
    (op = "fetch" /\ kind = "image" /\ pc # "start") =>
        LET hinted == ImageFile(msg)
            stem == TrimSuffix(hinted, Ext(hinted))
        IN  cands = << hinted, stem \o PngExt, stem \o GifExt, stem \o JpgExt >>

(* C8: a poll of an image fetch that finds an existing-and-readable        *)
(* candidate reads the first such candidate and returns: an unreadable     *)
(* candidate of higher priority does not stand in its way.                 *)
C8_FirstReadableWins ==
    (op = "fetch" /\ kind = "image") =>
        /\ pc = "read" => (firstReady # 0 => sel = firstReady)
        /\ pc = "wait" => firstReady = 0

(* C9: the blob a disk-backed fetch returns is named by the base name of   *)
(* the candidate whose bytes it holds.                                     *)
C9_NameIsWinnerBase ==
    (DiskFetch /\ pc = "done" /\ ~result.nil) => result.Name = Base(cands[sel])

(* C10: the bytes a disk-backed fetch returns are the complete content of  *)
(* the file, however the writer's steps interleave with the poll.          *)
C10_CompleteBytes ==
    (DiskFetch /\ pc = "done" /\ ~result.nil)
        => result.Binary = Content(cands[sel], FileChunks)

=============================================================================
